---- MODULE Spec2Model ----
(***************************************************************************)
(* A model of fs-sparse: SparseIter and SparseRangeIter (src/src/lib.rs)   *)
(* and the print-info example's seek and one_file                          *)
(* (src/examples/print-info.rs), over a file whose data/hole layout is     *)
(* answered by lseek(2) with SEEK_DATA / SEEK_HOLE / SEEK_END.             *)
(* The program runs on Linux or on macOS; on macOS the answers APFS is      *)
(* recorded to give (src/src/lib.rs, src/test/basic.rs) are possible too.  *)
(*                                                                         *)
(*   Spec      the iterators: two SparseIter over one file, one of them    *)
(*             wrapped into a SparseRangeIter                              *)
(*   WalkSpec  print-info's one_file over one file                         *)
(*   WalkLive  WalkSpec, where a step that can be taken is taken           *)
(*   SeekSpec  one call of print-info's seek with any offset and whence    *)
(***************************************************************************)
EXTENDS Integers, Sequences, FiniteSets

\* ------------------------------------------------------------------ bounds

\* Longest file, in bytes.
MaxLen == 4
\* Most completed calls of SparseIter::next on one iterator.
MaxCalls == 3
\* Most lseek calls followed inside one call of SparseIter::next.
MaxSeeks == 3
\* Most seeks the OS fails with a real I/O error (EIO) in one run.
MaxFaults == 2
\* The width, in bits, the model gives to u64 and to off_t (i64): offsets are
\* in 0..U64Max and off_t holds -1..OffTMax.
OffBits == 4

\* ------------------------------------------------------------ the file, lseek

\* ItemKind: Data | Hole.
ItemKind == {"Data", "Hole"}

\* A file is its bytes' kinds: f[i+1] is the kind of the byte at offset i.
Files == UNION {[1..n -> ItemKind] : n \in 0..MaxLen}

SEEK_DATA == "SEEK_DATA"
SEEK_HOLE == "SEEK_HOLE"
SEEK_END == "SEEK_END"

Min(S) == CHOOSE x \in S : \A y \in S : x <= y
Max(S) == CHOOSE x \in S : \A y \in S : y <= x

\* What lseek returns: the new offset, or -1 with errno set.
SeekOk(o) == [off |-> o, errno |-> "OK"]
SeekErr(e) == [off |-> -1, errno |-> e]

\* Offsets at or after o whose byte is of kind k.
RegionAt(f, o, k) == {i \in o..(Len(f) - 1) : f[i + 1] = k}

\* u64::MAX and off_t's (i64's) greatest value, at the model's width.
U64Max == 2 ^ OffBits - 1
OffTMax == 2 ^ (OffBits - 1) - 1

\* The greatest file sizes (s_maxbytes) of the filesystems a file with layout
\* f can be on: off_t's greatest value on tmpfs, less on others (ext4), never
\* less than the size of the file.
MaxBytes(f) == Len(f)..OffTMax

\* lseek(fd, offset, whence) on a file with layout f, as POSIX and Linux
\* answer it on a filesystem whose greatest file size is maxbytes.  SEEK_END
\* fails with EINVAL when the resulting offset is above that size.  SEEK_DATA
\* and SEEK_HOLE fail with ENXIO at or past the end of the file, SEEK_DATA also
\* inside the final hole; every file has a virtual zero-size hole at its very
\* end.
lseek(f, offset, whence, maxbytes) ==
    IF whence = SEEK_END
    THEN IF Len(f) + offset > maxbytes
         THEN SeekErr("EINVAL")
         ELSE SeekOk(Len(f) + offset)
    ELSE IF offset >= Len(f) THEN SeekErr("ENXIO")
    ELSE IF whence = SEEK_DATA
         THEN IF RegionAt(f, offset, "Data") = {}
              THEN SeekErr("ENXIO")
              ELSE SeekOk(Min(RegionAt(f, offset, "Data")))
         ELSE SeekOk(Min(RegionAt(f, offset, "Hole") \cup {Len(f)}))

\* The platforms the crate and the example are built for.
Platforms == {"linux", "macos"}

\* macOS/APFS, SEEK_HOLE: asked at a data offset with no hole before the end
\* of the file, it returns 0 where the end of the file was due.
ApfsSeekHole(f, offset) ==
    IF /\ offset < Len(f)
       /\ f[offset + 1] = "Data"
       /\ RegionAt(f, offset, "Hole") = {}
    THEN {SeekOk(0)}
    ELSE {}

\* macOS/APFS, SEEK_DATA: asked in the middle of a data region (not at its
\* first byte), it does not report that region but the next one, or ENXIO
\* when there is none.
ApfsSeekData(f, offset) ==
    IF /\ 0 < offset
       /\ offset < Len(f)
       /\ f[offset] = "Data"
       /\ f[offset + 1] = "Data"
    THEN {lseek(f, Min(RegionAt(f, offset, "Hole") \cup {Len(f)}), SEEK_DATA,
                OffTMax)}
    ELSE {}

\* The answers a platform can give besides lseek's: none on Linux, those of
\* APFS on macOS.
PlatformAnswers(p, f, offset, whence) ==
    IF p /= "macos" THEN {}
    ELSE IF whence = SEEK_HOLE THEN ApfsSeekHole(f, offset)
    ELSE IF whence = SEEK_DATA THEN ApfsSeekData(f, offset)
    ELSE {}

\* The process's standard output: "writable", or "badf" when descriptor 1 is
\* not open for writing (write fails with EBADF).
Stdouts == {"writable", "badf"}

\* ------------------------------------------------------------------ items

\* What one call of an iterator's next came to.  tag is "Ok" (Some(Ok(item))),
\* "Err" (Some(Err(e))), "None", or "Panic" (the call unwound).
Outcome(tag, kind, start, end, errno, n) ==
    [tag |-> tag, kind |-> kind, start |-> start, end |-> end,
     errno |-> errno, seeks |-> n]


\* unimplemented!(): the call panics.
Unimplemented == Outcome("Panic", "-", 0, 0, "OK", 0)

\* Option<SparseItem>::None, the buffered point of a fresh SparseRangeIter.
NoItem == [some |-> FALSE, kind |-> "-", offset |-> 0]

\* ------------------------------------------------------------------ state

VARIABLES
    os,         \* the platform the program was built for and runs on
    stdout,     \* what the process's standard output is: see Stdouts
    file,       \* the layout of the file behind the borrowed fs::File
    cursor,     \* the descriptor's file offset
    injected,   \* seeks the OS has failed with EIO so far
    mode,       \* "none": no iterator yet; "point": a SparseIter; "range": wrapped
    pc,         \* "idle" | "loop" (inside SparseIter::next) | "panicked"
    seeks,      \* lseek calls issued by the current (or last) call of next
    results,    \* the outcomes of the calls of SparseIter::next, in order
    rresults,   \* the outcomes of the calls of SparseRangeIter::next, in order
    prev,       \* SparseRangeIter.prev
    iseek,      \* the last lseek a SparseIter issued: who, arguments, answer
    mode2,      \* a second SparseIter over the same &File: "none" | "point"
    pc2,        \* "idle" | "loop" (inside the second iterator's next)
    seeks2,     \* lseek calls issued by the second iterator's current call
    results2,   \* the outcomes of the second iterator's calls of next
    wpc,        \* print-info: where one_file (or a lone seek) stands
    woffset,    \* print-info: one_file's `offset` (the argument of a lone seek)
    wlog,       \* print-info: the calls of seek so far, each with its result
    wret        \* print-info: "running", or how one_file ended

iterVars == <<mode, pc, seeks, results, rresults, prev>>
iter2Vars == <<mode2, pc2, seeks2, results2>>

walkVars == <<wpc, woffset, wlog, wret>>

vars == <<os, stdout, file, cursor, injected, mode, pc, seeks, results, rresults, prev,
          iseek, mode2, pc2, seeks2, results2, wpc, woffset, wlog, wret>>

\* Some(Err(io::Error::last_os_error())), after n seeks.
SomeErr(e, n) == Outcome("Err", "-", 0, 0, e, n)

\* No lseek issued yet.
NoSeek == [by |-> 0, offset |-> 0, whence |-> "-", off |-> 0, errno |-> "OK"]

\* The record of one lseek: iterator `by` passed (offset, whence), the OS
\* answered r.
Seek(by, offset, whence, r) ==
    [by |-> by, offset |-> offset, whence |-> whence,
     off |-> r.off, errno |-> r.errno]

\* The file and the iterators before anything is built; no seek made yet.
Base ==
    /\ os \in Platforms
    /\ stdout \in Stdouts
    /\ file \in Files
    /\ cursor \in 0..Len(file)
    /\ injected = 0
    /\ mode = "none"
    /\ pc = "idle"
    /\ seeks = 0
    /\ results = <<>>
    /\ rresults = <<>>
    /\ prev = NoItem
    /\ iseek = NoSeek
    /\ mode2 = "none"
    /\ pc2 = "idle"
    /\ seeks2 = 0
    /\ results2 = <<>>
    /\ wlog = <<>>
    /\ wret = "running"

\* one_file: let mut offset = 0, about to enter the loop.
Init ==
    /\ Base
    /\ wpc = "seek_data"
    /\ woffset = 0

\* The answers the OS can give to one lseek: the file's own on a filesystem
\* it can be on (only SEEK_END looks at the filesystem's greatest file size),
\* one of the platform's, or a real I/O error.
SeekOutcomes(f, offset, whence) ==
    (IF whence = SEEK_END
     THEN {lseek(f, offset, whence, m) : m \in MaxBytes(f)}
     ELSE {lseek(f, offset, whence, OffTMax)})
        \cup PlatformAnswers(os, f, offset, whence)
        \cup (IF injected < MaxFaults THEN {SeekErr("EIO")} ELSE {})

\* The offset argument of the lseek of SparseIter::next, as if the iterator
\* sought from where the descriptor stands.
SeekOffset_cursor == cursor

\* The offset argument of the lseek of SparseIter::next: the literal 0.
SeekOffset == 0

\* The whence argument of the lseek of SparseIter::next.
SeekWhence == SEEK_DATA

\* impl From<&File> for SparseIter, as if it rewound the file (the TODO of
\* the constructor).
Construct_rewind(c) == 0

\* The descriptor's offset after impl From<&File> for SparseIter, which only
\* stores the reference: Self { file }.
Construct(c) == c

\* impl From<&File> for SparseIter: Self { file }.
From_File ==
    /\ mode = "none"
    /\ mode' = "point"
    /\ cursor' = Construct(cursor)
    /\ UNCHANGED <<os, stdout, file, injected, pc, seeks, results, rresults, prev,
                   iseek>>
    /\ UNCHANGED iter2Vars
    /\ UNCHANGED walkVars

\* impl From<SparseIter> for SparseRangeIter: Self { inner, prev: None }.
From_SparseIter ==
    /\ mode = "point"
    /\ pc = "idle"
    /\ mode' = "range"
    /\ prev' = NoItem
    /\ UNCHANGED <<os, stdout, file, cursor, injected, pc, seeks, results, rresults,
                   iseek>>
    /\ UNCHANGED iter2Vars
    /\ UNCHANGED walkVars

\* SparseIter::next is entered.
SparseIter_next_call ==
    /\ mode = "point"
    /\ pc = "idle"
    /\ Len(results) < MaxCalls
    /\ pc' = "loop"
    /\ seeks' = 0
    /\ UNCHANGED <<os, stdout, file, cursor, injected, mode, results, rresults, prev,
                   iseek>>
    /\ UNCHANGED iter2Vars
    /\ UNCHANGED walkVars

\* One turn of the loop of SparseIter::next: lseek(fd, 0, SEEK_DATA); a
\* negative result returns Some(Err(last_os_error())), any other is dropped and
\* the loop turns again.
SparseIter_next_loop ==
    /\ pc = "loop"
    /\ seeks < MaxSeeks
    /\ \E r \in SeekOutcomes(file, SeekOffset, SeekWhence) :
        /\ seeks' = seeks + 1
        /\ iseek' = Seek(1, SeekOffset, SeekWhence, r)
        /\ injected' = IF r.errno = "EIO" THEN injected + 1 ELSE injected
        /\ IF r.off < 0
           THEN /\ results' = Append(results, SomeErr(r.errno, seeks + 1))
                /\ pc' = "idle"
                /\ cursor' = cursor
           ELSE /\ results' = results
                /\ pc' = "loop"
                /\ cursor' = r.off
    /\ UNCHANGED <<os, stdout, file, mode, rresults, prev>>
    /\ UNCHANGED iter2Vars
    /\ UNCHANGED walkVars

\* SparseRangeIter::next: unimplemented!().
SparseRangeIter_next ==
    /\ mode = "range"
    /\ pc = "idle"
    /\ pc' = "panicked"
    /\ rresults' = Append(rresults, Unimplemented)
    /\ UNCHANGED <<os, stdout, file, cursor, injected, mode, seeks, results, prev, iseek>>
    /\ UNCHANGED iter2Vars
    /\ UNCHANGED walkVars

\* impl From<&File> for SparseIter, a second time over the same file (the
\* reference is shared, so is the descriptor).
From_File2 ==
    /\ mode2 = "none"
    /\ mode2' = "point"
    /\ cursor' = Construct(cursor)
    /\ UNCHANGED <<os, stdout, file, injected, iseek, pc2, seeks2, results2>>
    /\ UNCHANGED iterVars
    /\ UNCHANGED walkVars

\* The second iterator's SparseIter::next is entered.
SparseIter2_next_call ==
    /\ mode2 = "point"
    /\ pc2 = "idle"
    /\ Len(results2) < MaxCalls
    /\ pc2' = "loop"
    /\ seeks2' = 0
    /\ UNCHANGED <<os, stdout, file, cursor, injected, iseek, mode2, results2>>
    /\ UNCHANGED iterVars
    /\ UNCHANGED walkVars

\* One turn of the loop of the second iterator's SparseIter::next.
SparseIter2_next_loop ==
    /\ pc2 = "loop"
    /\ seeks2 < MaxSeeks
    /\ \E r \in SeekOutcomes(file, SeekOffset, SeekWhence) :
        /\ seeks2' = seeks2 + 1
        /\ iseek' = Seek(2, SeekOffset, SeekWhence, r)
        /\ injected' = IF r.errno = "EIO" THEN injected + 1 ELSE injected
        /\ IF r.off < 0
           THEN /\ results2' = Append(results2, SomeErr(r.errno, seeks2 + 1))
                /\ pc2' = "idle"
                /\ cursor' = cursor
           ELSE /\ results2' = results2
                /\ pc2' = "loop"
                /\ cursor' = r.off
    /\ UNCHANGED <<os, stdout, file, mode2>>
    /\ UNCHANGED iterVars
    /\ UNCHANGED walkVars

Next ==
    \/ From_File
    \/ From_SparseIter
    \/ SparseIter_next_call
    \/ SparseIter_next_loop
    \/ SparseRangeIter_next
    \/ From_File2
    \/ SparseIter2_next_call
    \/ SparseIter2_next_loop

Spec == Init /\ [][Next]_vars

\* ------------------------------------------------- print-info: seek, one_file

\* u64 -> off_t as a conversion that drops the top bit instead of failing.
TryInto_wrapping(u) == [ok |-> TRUE, v |-> u % (2 ^ (OffBits - 1))]

\* offset.try_into(): u64 -> off_t, an error when the value does not fit.
TryInto(u) ==
    IF u <= OffTMax THEN [ok |-> TRUE, v |-> u] ELSE [ok |-> FALSE, v |-> 0]

\* println!: the ways one print to standard output can end.  "written": the
\* write succeeded and errno is as it was; "dropped": the write failed with
\* EBADF, which std's stdout takes for success, and errno is now EBADF;
\* "failed": the write failed otherwise (a closed pipe, a full device) and
\* println! panics.
Println ==
    IF stdout = "badf" THEN {"dropped"} ELSE {"written", "failed"}

\* One call of seek(file, offset, loc): `passed` is the offset handed to lseek
\* (-1: lseek was not called), `raw` what lseek returned and `oserr` the errno
\* it set, `print` how the println! of the error path ended ("-": not run),
\* `tag` how seek ended ("Ok": Ok(off), "Err": Err(last_os_error()), "Panic":
\* an unwrap or the println! failed) and `errno` the error of an "Err".
SeekCall(offset, loc, passed, raw, oserr, print, errno, tag, off) ==
    [offset |-> offset, whence |-> loc, passed |-> passed, raw |-> raw,
     oserr |-> oserr, print |-> print, errno |-> errno, tag |-> tag,
     off |-> off]

\* The error path of seek: println!("e: {}", off), then
\* Err(io::Error::last_os_error()), which reads errno after the print.
SeekFailed(offset, loc, passed, r, p) ==
    IF p = "failed"
    THEN SeekCall(offset, loc, passed, r.off, r.errno, p, "OK", "Panic", 0)
    ELSE IF p = "dropped"
    THEN SeekCall(offset, loc, passed, r.off, r.errno, p, "EBADF", "Err", 0)
    ELSE SeekCall(offset, loc, passed, r.off, r.errno, p, r.errno, "Err", 0)

\* fn seek(file, offset, loc) -> io::Result<u64>: the ways one call can end.
seek(f, offset, loc) ==
    LET o == TryInto(offset)
    IN  IF ~o.ok
        THEN {SeekCall(offset, loc, -1, -1, "OK", "-", "OK", "Panic", 0)}
        ELSE UNION {IF r.off < 0
                    THEN {SeekFailed(offset, loc, o.v, r, p) : p \in Println}
                    ELSE {SeekCall(offset, loc, o.v, r.off, "OK", "-", "OK",
                                   "Ok", r.off)} :
                    r \in SeekOutcomes(f, o.v, loc)}

\* What a call of seek does to the OS: the descriptor's offset moves on
\* success, and a real I/O error is one more of them.
SeekEffects(c) ==
    /\ wlog' = Append(wlog, c)
    /\ cursor' = IF c.tag = "Ok" THEN c.raw ELSE cursor
    /\ injected' = IF c.oserr = "EIO" THEN injected + 1 ELSE injected

\* offset = off.
Advance(old, off) == off

\* if off == 0 { break; }
BreakOnZero(off) == off = 0

\* How one_file ends when one of its own println! calls panics.
PrintPanic == "PrintPanic"

\* one_file, the head of the loop: seek(&file, offset, SEEK_DATA), the match
\* on its result and the println! of the arm taken.
Walk_seek_data ==
    /\ wpc = "seek_data"
    /\ \E c \in seek(file, woffset, SEEK_DATA) :
        \E p \in Println :
            /\ SeekEffects(c)
            /\ IF c.tag = "Err" /\ c.errno = "ENXIO"
               THEN /\ IF p = "failed"
                       THEN wpc' = "done" /\ wret' = PrintPanic
                       ELSE wpc' = "seek_end" /\ wret' = wret
                    /\ UNCHANGED woffset
               ELSE IF c.tag /= "Ok"
               THEN /\ wpc' = "done"
                    /\ wret' = "Panic"
                    /\ UNCHANGED woffset
               ELSE IF p = "failed"
               THEN /\ wpc' = "done"
                    /\ wret' = PrintPanic
                    /\ UNCHANGED woffset
               ELSE /\ woffset' = Advance(woffset, c.off)
                    /\ IF BreakOnZero(c.off)
                       THEN wpc' = "done" /\ wret' = "Ok"
                       ELSE wpc' = "seek_hole" /\ wret' = wret
    /\ UNCHANGED <<os, stdout, file, iseek>>
    /\ UNCHANGED iterVars
    /\ UNCHANGED iter2Vars

\* one_file, the ENXIO arm: let end = seek(&file, 0, SEEK_END)?; and the
\* println! of it.
Walk_seek_end ==
    /\ wpc = "seek_end"
    /\ \E c \in seek(file, 0, SEEK_END) :
        \E p \in Println :
            /\ SeekEffects(c)
            /\ IF c.tag /= "Ok"
               THEN wpc' = "done" /\ wret' = c.tag
               ELSE IF p = "failed"
               THEN wpc' = "done" /\ wret' = PrintPanic
               ELSE wpc' = "seek_hole_end" /\ wret' = wret
    /\ UNCHANGED <<os, stdout, file, iseek, woffset>>
    /\ UNCHANGED iterVars
    /\ UNCHANGED iter2Vars

\* The last seek of the ENXIO arm, as if the `break` after it were missing:
\* on success the loop turns again.
Walk_seek_hole_end_nobreak ==
    /\ wpc = "seek_hole_end"
    /\ \E c \in seek(file, woffset, SEEK_HOLE) :
        \E p \in Println :
            /\ SeekEffects(c)
            /\ IF c.tag /= "Ok"
               THEN wpc' = "done" /\ wret' = c.tag
               ELSE IF p = "failed"
               THEN wpc' = "done" /\ wret' = PrintPanic
               ELSE wpc' = "seek_data" /\ wret' = wret
    /\ UNCHANGED <<os, stdout, file, iseek, woffset>>
    /\ UNCHANGED iterVars
    /\ UNCHANGED iter2Vars

\* one_file, the ENXIO arm: let end_hole = seek(&file, offset, SEEK_HOLE)?;
\* the println! of it; break; and the function returns Ok(()).
Walk_seek_hole_end ==
    /\ wpc = "seek_hole_end"
    /\ \E c \in seek(file, woffset, SEEK_HOLE) :
        \E p \in Println :
            /\ SeekEffects(c)
            /\ wpc' = "done"
            /\ wret' = IF c.tag /= "Ok" THEN c.tag
                       ELSE IF p = "failed" THEN PrintPanic
                       ELSE "Ok"
    /\ UNCHANGED <<os, stdout, file, iseek, woffset>>
    /\ UNCHANGED iterVars
    /\ UNCHANGED iter2Vars

\* one_file, the tail of the loop: seek(&file, offset, SEEK_HOLE).unwrap()
\* and the println! of it.
Walk_seek_hole ==
    /\ wpc = "seek_hole"
    /\ \E c \in seek(file, woffset, SEEK_HOLE) :
        \E p \in Println :
            /\ SeekEffects(c)
            /\ IF c.tag /= "Ok"
               THEN /\ wpc' = "done"
                    /\ wret' = "Panic"
                    /\ UNCHANGED woffset
               ELSE IF p = "failed"
               THEN /\ wpc' = "done"
                    /\ wret' = PrintPanic
                    /\ UNCHANGED woffset
               ELSE /\ woffset' = Advance(woffset, c.off)
                    /\ IF BreakOnZero(c.off)
                       THEN wpc' = "done" /\ wret' = "Ok"
                       ELSE wpc' = "seek_data" /\ wret' = wret
    /\ UNCHANGED <<os, stdout, file, iseek>>
    /\ UNCHANGED iterVars
    /\ UNCHANGED iter2Vars

WalkNext ==
    \/ Walk_seek_data
    \/ Walk_seek_end
    \/ Walk_seek_hole_end
    \/ Walk_seek_hole

\* print-info's one_file over one file.
WalkSpec == Init /\ [][WalkNext]_vars

\* one_file as the process runs it: while a step is left, one is taken.
WalkLive == WalkSpec /\ WF_vars(WalkNext)

\* The whence values seek is called with.
Whences == {SEEK_DATA, SEEK_HOLE, SEEK_END}

\* Before one call of seek with any u64 offset.
SeekInit ==
    /\ Base
    /\ wpc = "seek"
    /\ woffset \in 0..U64Max

\* One call of seek(&file, offset, loc).
Seek_call ==
    /\ wpc = "seek"
    /\ \E loc \in Whences :
        \E c \in seek(file, woffset, loc) :
            /\ SeekEffects(c)
            /\ wpc' = "done"
            /\ wret' = c.tag
    /\ UNCHANGED <<os, stdout, file, iseek, woffset>>
    /\ UNCHANGED iterVars
    /\ UNCHANGED iter2Vars

\* print-info's seek, called once with any offset and whence.
SeekSpec == SeekInit /\ [][Seek_call]_vars

\* ------------------------------------------------------- reading the outcomes

\* The outcome is a yielded item of the given kind and bounds.
IsItem(o, kind, start, end) ==
    /\ o.tag = "Ok"
    /\ o.kind = kind
    /\ o.start = start
    /\ o.end = end

\* The offset up to which the ranges yielded before call i reach (0 if none).
CoveredBefore(i) ==
    LET oks == {j \in 1..(i - 1) : rresults[j].tag = "Ok"}
    IN  IF oks = {} THEN 0
        ELSE rresults[CHOOSE j \in oks : \A k \in oks : k <= j].end

\* The file is one hole [0, n) followed by data [n, Len(file)).
HoleThenData(n) ==
    /\ n \in 1..(Len(file) - 1)
    /\ \A i \in 1..Len(file) : file[i] = IF i <= n THEN "Hole" ELSE "Data"

\* The file is not empty and is one hole.
AllHole ==
    /\ Len(file) > 0
    /\ \A i \in 1..Len(file) : file[i] = "Hole"

\* A call of SparseIter::next has ended the sequence (None) or failed it (Err).
PointTerminal == \E i \in DOMAIN results : results[i].tag \in {"None", "Err"}

\* A call of SparseRangeIter::next has ended the sequence or failed it.
RangeTerminal == \E i \in DOMAIN rresults : rresults[i].tag \in {"None", "Err"}

\* The outcome is a real OS error, not the ENXIO end signal.
IsFatal(o) == o.tag = "Err" /\ o.errno /= "ENXIO"

\* No call of either iterator has yielded an item: SparseIter::next returns
\* only errors and SparseRangeIter::next only panics.
NoItemYielded ==
    /\ \A i \in DOMAIN results : results[i].tag = "Err"
    /\ \A i \in DOMAIN results2 : results2[i].tag = "Err"
    /\ \A i \in DOMAIN rresults : rresults[i].tag = "Panic"

\* ------------------------------------------------------------------ claims

\* C1: when the OS reports no real error, every call of SparseRangeIter::next
\* yields a range that starts where the ranges before it end (the first at 0),
\* or ends the sequence with the ranges reaching the file's length: the drained
\* ranges cover [0, file length) with no gap and no overlap.
C1_RangesCoverFile ==
    injected = 0 =>
        \A i \in DOMAIN rresults :
            \/ /\ rresults[i].tag = "Ok"
               /\ rresults[i].start = CoveredBefore(i)
               /\ rresults[i].end <= Len(file)
            \/ /\ rresults[i].tag = "None"
               /\ CoveredBefore(i) = Len(file)

\* C3: SparseIter::next never returns the ENXIO of a seek as Some(Err(..)).
C3_EnxioNotSurfaced ==
    \A i \in DOMAIN results :
        ~(results[i].tag = "Err" /\ results[i].errno = "ENXIO")

\* C4: no call of SparseIter::next issues more than two OS seek calls.
C4_AtMostTwoSeeks ==
    /\ seeks <= 2
    /\ \A i \in DOMAIN results : results[i].seeks <= 2

\* C5: once an iterator has reached its terminal condition, a later call of
\* next issues no OS seek and returns None.
C5_NoneAfterTerminal ==
    [][/\ PointTerminal =>
            /\ seeks' <= seeks
            /\ Len(results') > Len(results)
                   => results'[Len(results')].tag = "None"
       /\ RangeTerminal =>
            (Len(rresults') > Len(rresults)
                   => rresults'[Len(rresults')].tag = "None")]_vars

\* C6: a real OS error (not ENXIO) is surfaced once: after the call that
\* returned it, no call of SparseIter::next returns an Err or an Ok item.
C6_FatalErrorOnce ==
    \A i, j \in DOMAIN results :
        (i < j /\ IsFatal(results[i])) => results[j].tag = "None"

\* C9: a file that is one hole [0, N) then data [N, N+k) yields exactly the
\* ranges Hole [0, N) and Data [N, N+k), in that order, and then ends.
C9_HoleThenDataTwoRanges ==
    \A n \in 1..MaxLen :
        (HoleThenData(n) /\ injected = 0) =>
            \A i \in DOMAIN rresults :
                /\ i = 1 => IsItem(rresults[i], "Hole", 0, n)
                /\ i = 2 => IsItem(rresults[i], "Data", n, Len(file))
                /\ i > 2 => rresults[i].tag = "None"

\* C10: a non-empty file of length L that is one hole yields exactly one
\* range, Hole [0, L), and no error.
C10_AllHoleOneRange ==
    (AllHole /\ injected = 0) =>
        \A i \in DOMAIN rresults :
            /\ i = 1 => IsItem(rresults[i], "Hole", 0, Len(file))
            /\ i > 1 => rresults[i].tag = "None"

\* ------------------------------------------------------- claims C11 .. C20

\* C11: on an empty file the calls of SparseIter::next and of
\* SparseRangeIter::next all return None: no Ok item, no Err item.
C11_EmptyFileYieldsNothing ==
    (Len(file) = 0 /\ injected = 0) =>
        /\ \A i \in DOMAIN results : results[i].tag = "None"
        /\ \A i \in DOMAIN results2 : results2[i].tag = "None"
        /\ \A i \in DOMAIN rresults : rresults[i].tag = "None"

\* C13: constructing a SparseIter, or a SparseRangeIter from it, issues no
\* seek and leaves the file cursor where it was; a fresh SparseRangeIter has
\* prev = None; no seek is issued before the first call of next.
C13_ConstructionSeeksNothing ==
    /\ [][(mode' /= mode \/ mode2' /= mode2) =>
            /\ cursor' = cursor
            /\ iseek' = iseek
            /\ seeks' = seeks /\ seeks2' = seeks2
            /\ (mode' = "range" => prev' = NoItem)]_vars
    /\ []((pc /= "loop" /\ results = <<>> /\ pc2 /= "loop" /\ results2 = <<>>)
            => iseek = NoSeek)

\* C13 witness: both iterators are built, one wrapped into a SparseRangeIter,
\* on a file whose cursor is not at 0, and nothing has been sought.
C13_Witness ==
    /\ mode = "range"
    /\ mode2 = "point"
    /\ prev = NoItem
    /\ cursor > 0
    /\ iseek = NoSeek
    /\ rresults = <<>>

\* C14: the seeks of one SparseIter alternate between SEEK_DATA and SEEK_HOLE,
\* starting with SEEK_DATA at offset 0; a seek that follows a successful one is
\* issued at the offset that one returned; and a successful seek yields the
\* point of the queried kind at the returned offset.
C14_SeeksAlternate ==
    [][(mode2 = "none" /\ seeks' = seeks + 1) =>
          /\ IF iseek = NoSeek
             THEN iseek'.whence = SEEK_DATA /\ iseek'.offset = 0
             ELSE iseek.off >= 0 =>
                    /\ iseek'.whence /= iseek.whence
                    /\ iseek'.offset = iseek.off
          /\ iseek'.off >= 0 =>
                /\ Len(results') = Len(results) + 1
                /\ IsItem(results'[Len(results')],
                          IF iseek'.whence = SEEK_DATA THEN "Data" ELSE "Hole",
                          iseek'.off, iseek'.off)]_vars

\* C16: on a file where the inner SparseIter returns an error, the first call
\* of SparseRangeIter::next returns that error as Some(Err(..)) and every
\* later call returns None.
C16_InnerErrorForwardedOnce ==
    lseek(file, SeekOffset, SeekWhence, OffTMax).off < 0 =>
        \A i \in DOMAIN rresults :
            /\ i = 1 => rresults[i].tag = "Err"
            /\ i > 1 => rresults[i].tag = "None"

\* C19: every seek a SparseIter issues is SEEK_DATA at offset 0, whatever the
\* earlier calls returned and wherever the cursor stands; with no real OS
\* error, every call of next returns what the first call returned.
C19_StatelessSeekDataAtZero ==
    /\ iseek /= NoSeek => (iseek.offset = 0 /\ iseek.whence = SEEK_DATA)
    /\ injected = 0 =>
          /\ \A i \in DOMAIN results : results[i] = results[1]
          /\ \A i \in DOMAIN results2 : results2[i] = results2[1]

\* C19 witness: the iterator has returned from two calls while the cursor
\* stands away from 0, and the OS reported no real error.
C19_Witness ==
    /\ injected = 0
    /\ Len(results) >= 2
    /\ iseek.by = 1
    /\ cursor > 0

\* ----------------------------------------------- claims about print-info

\* The offsets at which the file goes from one kind to the other.
Transitions(f) == {i \in 1..(Len(f) - 1) : f[i] /= f[i + 1]}

\* The number of data regions of the file.
DataRegions(f) ==
    Cardinality({i \in 1..Len(f) :
                    f[i] = "Data" /\ (i = 1 \/ f[i - 1] = "Hole")})

\* The calls of seek in the log with the given whence.
SeeksOf(loc) == {i \in DOMAIN wlog : wlog[i].whence = loc}

\* The SEEK_HOLE calls of the loop's tail: those made right after a SEEK_DATA.
HoleAfterData ==
    {i \in SeeksOf(SEEK_HOLE) : i > 1 /\ wlog[i - 1].whence = SEEK_DATA}

\* one_file's offset never decreases: the offsets it passed to SEEK_DATA and
\* SEEK_HOLE are in order, and none is above the offset it holds now.
OffsetNeverDecreases ==
    /\ \A i, j \in DOMAIN wlog :
           (i < j /\ wlog[i].whence /= SEEK_END /\ wlog[j].whence /= SEEK_END)
               => wlog[i].offset <= wlog[j].offset
    /\ \A i \in DOMAIN wlog :
           wlog[i].whence /= SEEK_END => wlog[i].offset <= woffset

\* The seeks made so far obeyed the OS contract: SEEK_DATA returned an offset
\* at or after the one it was asked at, SEEK_HOLE asked at a data offset a
\* strictly larger one.
ContractObeyed ==
    \A i \in DOMAIN wlog :
        wlog[i].tag = "Ok" =>
            /\ wlog[i].whence = SEEK_DATA => wlog[i].off >= wlog[i].offset
            /\ (wlog[i].whence = SEEK_HOLE /\ wlog[i].offset < Len(file)
                    /\ file[wlog[i].offset + 1] = "Data")
                   => wlog[i].off > wlog[i].offset

\* Standard output took every print: it is writable and no println! failed.
StdoutWorked ==
    /\ stdout = "writable"
    /\ wret /= PrintPanic
    /\ \A i \in DOMAIN wlog : wlog[i].print /= "failed"

\* C15: on a file whose first byte is data, with no real OS error and a
\* working standard output, one_file goes on after SEEK_DATA returned 0: it
\* issues SEEK_HOLE at 0, reaches every later transition, and ends only at
\* end-of-file or on ENXIO.
C15_ZeroIsNoSentinel ==
    (wpc = "done" /\ injected = 0 /\ StdoutWorked
        /\ Len(file) > 0 /\ file[1] = "Data") =>
        /\ \E i \in SeeksOf(SEEK_HOLE) : wlog[i].offset = 0
        /\ \A t \in Transitions(file) :
               \E i \in DOMAIN wlog : wlog[i].tag = "Ok" /\ wlog[i].off = t
        /\ \/ \E i \in DOMAIN wlog : wlog[i].errno = "ENXIO"
           \/ wlog[Len(wlog)].off = Len(file)

\* C17: when seeks fail only with ENXIO and standard output works, one_file
\* returns Ok(()): it neither panics nor returns an error, whatever the file.
C17_EnxioEndsWalkOk ==
    (wpc = "done" /\ injected = 0 /\ StdoutWorked) => wret = "Ok"

\* C18: an offset that does not fit off_t is never handed to lseek, wrapped or
\* truncated: seek fails (panics) without calling lseek; an offset handed to
\* lseek is the one seek was given; and a negative return of lseek is never
\* returned as Ok(offset).
C18_NoTruncatedOffset ==
    \A i \in DOMAIN wlog :
        /\ wlog[i].offset > OffTMax =>
               (wlog[i].tag = "Panic" /\ wlog[i].passed = -1)
        /\ wlog[i].passed /= -1 => wlog[i].passed = wlog[i].offset
        /\ wlog[i].raw < 0 => wlog[i].tag /= "Ok"
        /\ wlog[i].tag = "Ok" => (wlog[i].off = wlog[i].raw /\ wlog[i].off >= 0)

\* C18 witness: seek was called with an offset above off_t's greatest value
\* and panicked.
C18_Witness ==
    /\ wpc = "done"
    /\ \E i \in DOMAIN wlog :
           wlog[i].offset > OffTMax /\ wlog[i].tag = "Panic"

\* The successful SEEK_DATA calls of the loop found the first byte of a data
\* region each, and no two of them the same region.
OnePairPerRegion ==
    \A i \in SeeksOf(SEEK_DATA) :
        wlog[i].tag = "Ok" =>
            /\ wlog[i].off < Len(file)
            /\ file[wlog[i].off + 1] = "Data"
            /\ wlog[i].off > 0 => file[wlog[i].off] = "Hole"
            /\ \A j \in SeeksOf(SEEK_DATA) :
                   (j /= i /\ wlog[j].tag = "Ok") => wlog[j].off /= wlog[i].off

\* While the seeks obey the OS contract, one_file's offset never decreases
\* and its loop issues at most one SEEK_DATA/SEEK_HOLE pair per data region
\* plus one final SEEK_DATA.
WalkBounded ==
    ContractObeyed =>
        /\ OffsetNeverDecreases
        /\ OnePairPerRegion
        /\ Cardinality(HoleAfterData) <= DataRegions(file)
        /\ Cardinality(SeeksOf(SEEK_DATA)) <= DataRegions(file) + 1
        /\ \A i \in HoleAfterData : wlog[i - 1].tag = "Ok"
        /\ \A i \in SeeksOf(SEEK_DATA) :
               wlog[i].tag /= "Ok" => i = Max(SeeksOf(SEEK_DATA))

\* C20: for every file whose seeks obey the OS contract, one_file's offset
\* never decreases between loop iterations, its loop issues at most one
\* SEEK_DATA/SEEK_HOLE pair per data region plus one final SEEK_DATA (the
\* only one that may fail), and the walk ends.
C20_LoopTerminates ==
    /\ []WalkBounded
    /\ <>(wpc = "done")

\* C20 witness: the walk of a file with two data regions has ended after two
\* SEEK_DATA/SEEK_HOLE pairs and the final SEEK_DATA, every seek within the
\* OS contract.
C20_Witness ==
    /\ wpc = "done"
    /\ ContractObeyed
    /\ DataRegions(file) = 2
    /\ Cardinality(HoleAfterData) = 2
    /\ Cardinality(SeeksOf(SEEK_DATA)) = 3

====
